---- MODULE Spec2Model ----
(***************************************************************************)
(* A model of sherpa_onnx.OfflineRecognizer (offline_recognizer.py): the   *)
(* construction recipes, which assemble an OfflineRecognizerConfig and     *)
(* hand it to the inference engine, and the stream operations, which       *)
(* forward to the engine handle.                                           *)
(*                                                                         *)
(* Python's optional values are sequences of length at most one: <<>> is   *)
(* None (or an attribute that was never set), <<v>> is the value v.        *)
(* Floating-point arguments are carried unchanged through this layer and   *)
(* are written as strings ("1.5").                                         *)
(***************************************************************************)
EXTENDS Integers, Sequences, FiniteSets, TLC

(***************************************************************************)
(* Bounds of the model.                                                    *)
(***************************************************************************)
\* The number of streams one behaviour creates.
MaxStreams == 2
\* The length of the stream list of one decode_streams call.
MaxBatch == 2

(***************************************************************************)
(* Caller inputs.                                                          *)
(***************************************************************************)
DecodingMethods == {"greedy_search", "modified_beam_search", "beam_search"}
TokenPaths == {"tokens.txt", "missing.txt"}
\* The files that exist on disk; "missing.txt" does not.
ExistingFiles == {"tokens.txt", "encoder.onnx", "decoder.onnx", "joiner.onnx",
                  "model.onnx", "preprocess.onnx", "uncached_decode.onnx",
                  "cached_decode.onnx", "hw.txt", "lm.onnx"}
SampleRates == {8000, 16000}
FeatureDims == {40, 80}
HotwordsFiles == {"", "hw.txt"}
LmPaths == {"", "lm.onnx"}
ModelTypes == {"transducer", "nemo_transducer"}

\* The optional keyword parameters that only some recipes declare.
OptionalKw == {"sample_rate", "feature_dim", "hotwords_file", "lm"}

\* The keyword parameters among OptionalKw that the recipe's signature has.
Signature(recipe) ==
  CASE recipe = "from_transducer" ->
         {"sample_rate", "feature_dim", "hotwords_file", "lm"}
    [] recipe \in {"from_whisper", "from_moonshine"} -> {}
    [] OTHER -> {"sample_rate", "feature_dim"}

\* The arguments of one recipe call.  kw is the set of keywords the caller
\* passed that the recipe's signature does not have; every other parameter
\* holds the value the caller passed (possibly the signature's default).
ArgSpace ==
  [ kw : SUBSET OptionalKw,
    tokens : TokenPaths,
    sample_rate : SampleRates,
    feature_dim : FeatureDims,
    decoding_method : DecodingMethods,
    hotwords_file : HotwordsFiles,
    lm : LmPaths,
    model_type : ModelTypes ]

\* A parameter the recipe does not have and the caller did not pass has no
\* value: it is pinned to one representative so that it is not an input.
ArgsOf(recipe) ==
  { a \in ArgSpace :
      /\ a.kw \subseteq OptionalKw \ Signature(recipe)
      /\ ("sample_rate" \notin Signature(recipe) \cup a.kw => a.sample_rate = 16000)
      /\ ("feature_dim" \notin Signature(recipe) \cup a.kw => a.feature_dim = 80)
      /\ ("hotwords_file" \notin Signature(recipe) \cup a.kw => a.hotwords_file = "")
      /\ ("lm" \notin Signature(recipe) \cup a.kw => a.lm = "")
      /\ (recipe # "from_transducer" => a.model_type = "transducer") }

(***************************************************************************)
(* Errors.                                                                 *)
(***************************************************************************)
NoError == [type |-> "", option |-> "", required |-> "", given |-> ""]

\* TypeError: f() got an unexpected keyword argument 'name'
TypeError(name) ==
  [type |-> "TypeError", option |-> name, required |-> "", given |-> ""]

\* ValueError("Please use --decoding-method=modified_beam_search when using
\*             <option>. Currently given: <decoding_method>")
ValueError(option, decoding_method) ==
  [type |-> "ValueError", option |-> option,
   required |-> "--decoding-method=modified_beam_search",
   given |-> decoding_method]

\* Whatever the engine constructor raises.
EngineError ==
  [type |-> "EngineError", option |-> "", required |-> "", given |-> ""]

(***************************************************************************)
(* The configuration classes of the binding, with their defaults.          *)
(***************************************************************************)
PayloadFields == {"transducer", "paraformer", "nemo_ctc", "whisper", "tdnn",
                  "zipformer_ctc", "wenet_ctc", "sense_voice", "moonshine",
                  "telespeech_ctc"}

OfflineTransducerModelConfig(encoder, decoder, joiner) ==
  [encoder_filename |-> encoder, decoder_filename |-> decoder,
   joiner_filename |-> joiner]

OfflineParaformerModelConfig(model) == [model |-> model]

OfflineNemoEncDecCtcModelConfig(model) == [model |-> model]

OfflineWhisperModelConfig(encoder, decoder, language, task, tail_paddings) ==
  [encoder |-> encoder, decoder |-> decoder, language |-> language,
   task |-> task, tail_paddings |-> tail_paddings]

OfflineTdnnModelConfig(model) == [model |-> model]

OfflineZipformerCtcModelConfig(model) == [model |-> model]

OfflineWenetCtcModelConfig(model) == [model |-> model]

OfflineSenseVoiceModelConfig(model, language, use_itn) ==
  [model |-> model, language |-> language, use_itn |-> use_itn]

OfflineMoonshineModelConfig(preprocessor, encoder, uncached_decoder, cached_decoder) ==
  [preprocessor |-> preprocessor, encoder |-> encoder,
   uncached_decoder |-> uncached_decoder, cached_decoder |-> cached_decoder]

\* OfflineModelConfig() with no argument: every payload empty.
OfflineModelConfig ==
  [ transducer |-> OfflineTransducerModelConfig("", "", ""),
    paraformer |-> OfflineParaformerModelConfig(""),
    nemo_ctc |-> OfflineNemoEncDecCtcModelConfig(""),
    whisper |-> OfflineWhisperModelConfig("", "", "", "", -1),
    tdnn |-> OfflineTdnnModelConfig(""),
    zipformer_ctc |-> OfflineZipformerCtcModelConfig(""),
    wenet_ctc |-> OfflineWenetCtcModelConfig(""),
    sense_voice |-> OfflineSenseVoiceModelConfig("", "", FALSE),
    moonshine |-> OfflineMoonshineModelConfig("", "", "", ""),
    telespeech_ctc |-> "",
    tokens |-> "",
    num_threads |-> 1,
    debug |-> FALSE,
    provider |-> "cpu",
    model_type |-> "",
    modeling_unit |-> "cjkchar",
    bpe_vocab |-> "" ]

FeatureExtractorConfig(sampling_rate, feature_dim) ==
  [sampling_rate |-> sampling_rate, feature_dim |-> feature_dim]

OfflineLMConfig(model, scale, lm_num_threads, lm_provider) ==
  [model |-> model, scale |-> scale, lm_num_threads |-> lm_num_threads,
   lm_provider |-> lm_provider]

\* OfflineRecognizerConfig(feat_config, model_config, decoding_method,
\* rule_fsts, rule_fars): the keywords every recipe passes; the others keep
\* the binding's defaults.
OfflineRecognizerConfig(feat_config, model_config, decoding_method) ==
  [ feat_config |-> feat_config,
    model_config |-> model_config,
    lm_config |-> OfflineLMConfig("", "0.5", 1, "cpu"),
    decoding_method |-> decoding_method,
    max_active_paths |-> 4,
    hotwords_file |-> "",
    hotwords_score |-> "1.5",
    blank_penalty |-> "0.0",
    rule_fsts |-> "",
    rule_fars |-> "" ]

\* The paths a payload holds.
PayloadPaths(mc, f) ==
  CASE f = "transducer" ->
         {mc.transducer.encoder_filename, mc.transducer.decoder_filename,
          mc.transducer.joiner_filename}
    [] f = "whisper" -> {mc.whisper.encoder, mc.whisper.decoder}
    [] f = "moonshine" ->
         {mc.moonshine.preprocessor, mc.moonshine.encoder,
          mc.moonshine.uncached_decoder, mc.moonshine.cached_decoder}
    [] f = "telespeech_ctc" -> {mc.telespeech_ctc}
    [] OTHER -> {mc[f].model}

\* The payloads of a model configuration that are populated.
Populated(mc) == {f \in PayloadFields : PayloadPaths(mc, f) # {""}}

(***************************************************************************)
(* The engine.                                                             *)
(***************************************************************************)
\* _Recognizer(config): the engine handle, which keeps its own copy of the
\* configuration it was built from.
EngineRecognizer(recognizer_config) == [config |-> recognizer_config]

\* def _assert_file_exists(f): assert Path(f).is_file()
assert_file_exists(f) == f \in ExistingFiles

(***************************************************************************)
(* The recipes.  Each takes the bound arguments a and whether the engine   *)
(* constructor accepts the configuration, and returns what the call did:   *)
(* the error it raised (NoError when it returned), the configurations it   *)
(* handed to the engine constructor, and the attributes it set on self.    *)
(***************************************************************************)
Raise(error) ==
  [error |-> error, engine_args |-> <<>>, recognizer |-> <<>>, config |-> <<>>]

\* self.recognizer = _Recognizer(recognizer_config)
\* self.config = recognizer_config
\* return self
Construct(recognizer_config, engine_ok) ==
  IF engine_ok
  THEN [error |-> NoError, engine_args |-> <<recognizer_config>>,
        recognizer |-> <<EngineRecognizer(recognizer_config)>>,
        config |-> <<recognizer_config>>]
  ELSE [error |-> EngineError, engine_args |-> <<recognizer_config>>,
        recognizer |-> <<>>, config |-> <<>>]

\* from_transducer with the method test written against "greedy_search".
from_transducer_rejects_greedy_only(a, engine_ok) ==
  LET model_config ==
        [OfflineModelConfig EXCEPT
           !.transducer = OfflineTransducerModelConfig(
                            "encoder.onnx", "decoder.onnx", "joiner.onnx"),
           !.tokens = a.tokens,
           !.model_type = a.model_type]
      feat_config == FeatureExtractorConfig(a.sample_rate, a.feature_dim)
      lm_config == OfflineLMConfig(a.lm, "0.1", 1, "cpu")
      recognizer_config ==
        [OfflineRecognizerConfig(feat_config, model_config, a.decoding_method)
           EXCEPT !.lm_config = lm_config,
                  !.hotwords_file = a.hotwords_file]
  IN  IF Len(a.hotwords_file) > 0 /\ a.decoding_method = "greedy_search"
      THEN Raise(ValueError("--hotwords-file", a.decoding_method))
      ELSE IF a.lm # "" /\ a.decoding_method = "greedy_search"
      THEN Raise(ValueError("--lm", a.decoding_method))
      ELSE Construct(recognizer_config, engine_ok)

\* from_transducer with the engine built before the cross-field checks.
from_transducer_validates_late(a, engine_ok) ==
  LET model_config ==
        [OfflineModelConfig EXCEPT
           !.transducer = OfflineTransducerModelConfig(
                            "encoder.onnx", "decoder.onnx", "joiner.onnx"),
           !.tokens = a.tokens,
           !.model_type = a.model_type]
      feat_config == FeatureExtractorConfig(a.sample_rate, a.feature_dim)
      lm_config == OfflineLMConfig(a.lm, "0.1", 1, "cpu")
      recognizer_config ==
        [OfflineRecognizerConfig(feat_config, model_config, a.decoding_method)
           EXCEPT !.lm_config = lm_config,
                  !.hotwords_file = a.hotwords_file]
      built == Construct(recognizer_config, engine_ok)
  IN  IF built.error # NoError THEN built
      ELSE IF Len(a.hotwords_file) > 0 /\ a.decoding_method # "modified_beam_search"
      THEN [built EXCEPT !.error = ValueError("--hotwords-file", a.decoding_method),
                         !.config = <<>>]
      ELSE IF a.lm # "" /\ a.decoding_method # "modified_beam_search"
      THEN [built EXCEPT !.error = ValueError("--lm", a.decoding_method),
                         !.config = <<>>]
      ELSE built

\* from_transducer without the test of the lm path.
from_transducer_skips_lm_check(a, engine_ok) ==
  LET model_config ==
        [OfflineModelConfig EXCEPT
           !.transducer = OfflineTransducerModelConfig(
                            "encoder.onnx", "decoder.onnx", "joiner.onnx"),
           !.tokens = a.tokens,
           !.model_type = a.model_type]
      feat_config == FeatureExtractorConfig(a.sample_rate, a.feature_dim)
      lm_config == OfflineLMConfig(a.lm, "0.1", 1, "cpu")
      recognizer_config ==
        [OfflineRecognizerConfig(feat_config, model_config, a.decoding_method)
           EXCEPT !.lm_config = lm_config,
                  !.hotwords_file = a.hotwords_file]
  IN  IF Len(a.hotwords_file) > 0 /\ a.decoding_method # "modified_beam_search"
      THEN Raise(ValueError("--hotwords-file", a.decoding_method))
      ELSE Construct(recognizer_config, engine_ok)

from_transducer(a, engine_ok) ==
  LET model_config ==
        [OfflineModelConfig EXCEPT
           !.transducer = OfflineTransducerModelConfig(
                            "encoder.onnx", "decoder.onnx", "joiner.onnx"),
           !.tokens = a.tokens,
           !.model_type = a.model_type]
      feat_config == FeatureExtractorConfig(a.sample_rate, a.feature_dim)
      lm_config == OfflineLMConfig(a.lm, "0.1", 1, "cpu")
      recognizer_config ==
        [OfflineRecognizerConfig(feat_config, model_config, a.decoding_method)
           EXCEPT !.lm_config = lm_config,
                  !.hotwords_file = a.hotwords_file]
  IN  IF Len(a.hotwords_file) > 0 /\ a.decoding_method # "modified_beam_search"
      THEN Raise(ValueError("--hotwords-file", a.decoding_method))
      ELSE IF a.lm # "" /\ a.decoding_method # "modified_beam_search"
      THEN Raise(ValueError("--lm", a.decoding_method))
      ELSE Construct(recognizer_config, engine_ok)

\* Python binds the call's keywords to the signature before the body runs:
\* a keyword the signature does not have raises TypeError.  (Which of
\* several unexpected keywords the message names depends on their order in
\* the call; one is picked.)
UnexpectedKeyword(a) == Raise(TypeError(CHOOSE k \in a.kw : TRUE))

from_sense_voice(a, engine_ok) ==
  LET model_config ==
        [OfflineModelConfig EXCEPT
           !.sense_voice = OfflineSenseVoiceModelConfig("model.onnx", "", FALSE),
           !.tokens = a.tokens]
      feat_config == FeatureExtractorConfig(a.sample_rate, a.feature_dim)
      recognizer_config ==
        OfflineRecognizerConfig(feat_config, model_config, a.decoding_method)
  IN  IF a.kw # {} THEN UnexpectedKeyword(a)
      ELSE Construct(recognizer_config, engine_ok)

\* from_paraformer without its model_type keyword.
from_paraformer_untagged(a, engine_ok) ==
  LET model_config ==
        [OfflineModelConfig EXCEPT
           !.paraformer = OfflineParaformerModelConfig("model.onnx"),
           !.tokens = a.tokens]
      feat_config == FeatureExtractorConfig(a.sample_rate, a.feature_dim)
      recognizer_config ==
        OfflineRecognizerConfig(feat_config, model_config, a.decoding_method)
  IN  IF a.kw # {} THEN UnexpectedKeyword(a)
      ELSE Construct(recognizer_config, engine_ok)

from_paraformer(a, engine_ok) ==
  LET model_config ==
        [OfflineModelConfig EXCEPT
           !.paraformer = OfflineParaformerModelConfig("model.onnx"),
           !.tokens = a.tokens,
           !.model_type = "paraformer"]
      feat_config == FeatureExtractorConfig(a.sample_rate, a.feature_dim)
      recognizer_config ==
        OfflineRecognizerConfig(feat_config, model_config, a.decoding_method)
  IN  IF a.kw # {} THEN UnexpectedKeyword(a)
      ELSE Construct(recognizer_config, engine_ok)

\* from_telespeech_ctc with the feature parameters fixed in the recipe.
from_telespeech_ctc_fixed_features(a, engine_ok) ==
  LET model_config ==
        [OfflineModelConfig EXCEPT
           !.telespeech_ctc = "model.onnx",
           !.tokens = a.tokens,
           !.model_type = "nemo_ctc"]
      feat_config == FeatureExtractorConfig(40, 40)
      recognizer_config ==
        OfflineRecognizerConfig(feat_config, model_config, a.decoding_method)
  IN  IF a.kw # {} THEN UnexpectedKeyword(a)
      ELSE Construct(recognizer_config, engine_ok)

from_telespeech_ctc(a, engine_ok) ==
  LET model_config ==
        [OfflineModelConfig EXCEPT
           !.telespeech_ctc = "model.onnx",
           !.tokens = a.tokens,
           !.model_type = "nemo_ctc"]
      feat_config == FeatureExtractorConfig(a.sample_rate, a.feature_dim)
      recognizer_config ==
        OfflineRecognizerConfig(feat_config, model_config, a.decoding_method)
  IN  IF a.kw # {} THEN UnexpectedKeyword(a)
      ELSE Construct(recognizer_config, engine_ok)

\* from_nemo_ctc with the one method its docstring lists passed on, whatever
\* the caller gave.
from_nemo_ctc_greedy_only(a, engine_ok) ==
  LET model_config ==
        [OfflineModelConfig EXCEPT
           !.nemo_ctc = OfflineNemoEncDecCtcModelConfig("model.onnx"),
           !.tokens = a.tokens,
           !.model_type = "nemo_ctc"]
      feat_config == FeatureExtractorConfig(a.sample_rate, a.feature_dim)
      recognizer_config ==
        OfflineRecognizerConfig(feat_config, model_config, "greedy_search")
  IN  IF a.kw # {} THEN UnexpectedKeyword(a)
      ELSE Construct(recognizer_config, engine_ok)

from_nemo_ctc(a, engine_ok) ==
  LET model_config ==
        [OfflineModelConfig EXCEPT
           !.nemo_ctc = OfflineNemoEncDecCtcModelConfig("model.onnx"),
           !.tokens = a.tokens,
           !.model_type = "nemo_ctc"]
      feat_config == FeatureExtractorConfig(a.sample_rate, a.feature_dim)
      recognizer_config ==
        OfflineRecognizerConfig(feat_config, model_config, a.decoding_method)
  IN  IF a.kw # {} THEN UnexpectedKeyword(a)
      ELSE Construct(recognizer_config, engine_ok)

\* from_whisper with the feature parameters of from_tdnn_ctc's signature.
from_whisper_tdnn_features(a, engine_ok) ==
  LET model_config ==
        [OfflineModelConfig EXCEPT
           !.whisper = OfflineWhisperModelConfig(
                         "encoder.onnx", "decoder.onnx", "en", "transcribe", -1),
           !.tokens = a.tokens,
           !.model_type = "whisper"]
      feat_config == FeatureExtractorConfig(8000, 23)
      recognizer_config ==
        OfflineRecognizerConfig(feat_config, model_config, a.decoding_method)
  IN  IF a.kw # {} THEN UnexpectedKeyword(a)
      ELSE Construct(recognizer_config, engine_ok)

from_whisper(a, engine_ok) ==
  LET model_config ==
        [OfflineModelConfig EXCEPT
           !.whisper = OfflineWhisperModelConfig(
                         "encoder.onnx", "decoder.onnx", "en", "transcribe", -1),
           !.tokens = a.tokens,
           !.model_type = "whisper"]
      feat_config == FeatureExtractorConfig(16000, 80)
      recognizer_config ==
        OfflineRecognizerConfig(feat_config, model_config, a.decoding_method)
  IN  IF a.kw # {} THEN UnexpectedKeyword(a)
      ELSE Construct(recognizer_config, engine_ok)

from_moonshine(a, engine_ok) ==
  LET model_config ==
        [OfflineModelConfig EXCEPT
           !.moonshine = OfflineMoonshineModelConfig(
                           "preprocess.onnx", "encoder.onnx",
                           "uncached_decode.onnx", "cached_decode.onnx"),
           !.tokens = a.tokens]
      unused_feat_config == FeatureExtractorConfig(16000, 80)
      recognizer_config ==
        OfflineRecognizerConfig(unused_feat_config, model_config, a.decoding_method)
  IN  IF a.kw # {} THEN UnexpectedKeyword(a)
      ELSE Construct(recognizer_config, engine_ok)

from_tdnn_ctc(a, engine_ok) ==
  LET model_config ==
        [OfflineModelConfig EXCEPT
           !.tdnn = OfflineTdnnModelConfig("model.onnx"),
           !.tokens = a.tokens,
           !.model_type = "tdnn"]
      feat_config == FeatureExtractorConfig(a.sample_rate, a.feature_dim)
      recognizer_config ==
        OfflineRecognizerConfig(feat_config, model_config, a.decoding_method)
  IN  IF a.kw # {} THEN UnexpectedKeyword(a)
      ELSE Construct(recognizer_config, engine_ok)

from_wenet_ctc(a, engine_ok) ==
  LET model_config ==
        [OfflineModelConfig EXCEPT
           !.wenet_ctc = OfflineWenetCtcModelConfig("model.onnx"),
           !.tokens = a.tokens,
           !.model_type = "wenet_ctc"]
      feat_config == FeatureExtractorConfig(a.sample_rate, a.feature_dim)
      recognizer_config ==
        OfflineRecognizerConfig(feat_config, model_config, a.decoding_method)
  IN  IF a.kw # {} THEN UnexpectedKeyword(a)
      ELSE Construct(recognizer_config, engine_ok)

(***************************************************************************)
(* The engine's streams.  A stream holds the hotwords it decodes with, the *)
(* audio appended to it and, once decoded, its result.                     *)
(***************************************************************************)
\* The per-call hotword strings of create_stream.
HotwordStrings == {"HELLO WORLD"}

\* recognizer.create_stream(): the stream uses the recognizer-level hotwords
\* of the engine's configuration.
EngineCreateStream(handle) ==
  [hotwords |-> [origin |-> "hotwords_file", text |-> handle.config.hotwords_file],
   audio |-> FALSE,
   result |-> <<>>]

\* recognizer.create_stream(hotwords): the per-call string replaces the
\* recognizer-level hotwords for this stream.
EngineCreateStreamWithHotwords(handle, hotwords) ==
  [hotwords |-> [origin |-> "create_stream", text |-> hotwords],
   audio |-> FALSE,
   result |-> <<>>]

\* The result of decoding stream s: decided by its audio, its hotwords and
\* the engine's configuration, and by nothing else.
EngineResult(handle, s) ==
  [audio |-> s.audio, hotwords |-> s.hotwords.text,
   decoding_method |-> handle.config.decoding_method]

\* recognizer.decode_stream(s): the result is attached to the stream in
\* place; a stream that holds a result already is decoded again.
EngineDecodeStream(handle, strs, i) ==
  [strs EXCEPT ![i].result = <<EngineResult(handle, strs[i])>>]

\* recognizer.decode_streams(ss): the streams of ss[1..n], decoded in order.
RECURSIVE EngineDecodeStreams(_, _, _, _)
EngineDecodeStreams(handle, strs, ss, n) ==
  IF n = 0 THEN strs
  ELSE EngineDecodeStream(handle, EngineDecodeStreams(handle, strs, ss, n - 1), ss[n])

\* The state of a stream in the life cycle Created -> Ready -> Decoded.
Status(s) ==
  IF s.result # <<>> THEN "Decoded"
  ELSE IF s.audio THEN "Ready" ELSE "Created"

(***************************************************************************)
(* The stream operations of OfflineRecognizer.  Each returns the calls it  *)
(* makes on self.recognizer, in order.                                     *)
(***************************************************************************)
\* create_stream that asks the engine for a stream without the per-call
\* hotwords, whatever it was given.
create_stream_ignores_hotwords(hotwords) ==
  <<[op |-> "create_stream", hotwords |-> <<>>, streams |-> <<>>]>>

create_stream(hotwords) ==
  IF hotwords = <<>>
  THEN <<[op |-> "create_stream", hotwords |-> <<>>, streams |-> <<>>]>>
  ELSE <<[op |-> "create_stream", hotwords |-> hotwords, streams |-> <<>>]>>

\* decode_stream that makes the engine call a second time.
decode_stream_calls_twice(s) ==
  <<[op |-> "decode_stream", hotwords |-> <<>>, streams |-> <<s>>],
    [op |-> "decode_stream", hotwords |-> <<>>, streams |-> <<s>>]>>

decode_stream(s) ==
  <<[op |-> "decode_stream", hotwords |-> <<>>, streams |-> <<s>>]>>

\* decode_streams that forwards the list without its first stream.
decode_streams_drops_first(ss) ==
  <<[op |-> "decode_streams", hotwords |-> <<>>,
     streams |-> IF ss = <<>> THEN ss ELSE Tail(ss)]>>

decode_streams(ss) ==
  <<[op |-> "decode_streams", hotwords |-> <<>>, streams |-> ss]>>

(***************************************************************************)
(* State.                                                                  *)
(***************************************************************************)
VARIABLES
  recognizer,   \* self.recognizer: <<>> until a recipe sets it
  config,       \* self.config: <<>> until a recipe sets it
  call,         \* the last recipe call: its recipe, arguments and outcome
  streams,      \* the streams created so far, in order of creation
  last_op       \* the last stream operation: its arguments and outcome

vars == <<recognizer, config, call, streams, last_op>>

NoCall == [recipe |-> "", args |-> <<>>, error |-> NoError, engine_args |-> <<>>]

NoOp == [op |-> "", hotwords |-> <<>>, streams |-> <<>>, before |-> <<>>,
         engine_calls |-> <<>>, raised |-> FALSE]

Init ==
  /\ recognizer = <<>>
  /\ config = <<>>
  /\ call = NoCall
  /\ streams = <<>>
  /\ last_op = NoOp

\* What a recipe call leaves in call: its recipe, its arguments, the error
\* it raised and the configurations it handed to the engine constructor.
Invoke(recipe, a, r) ==
  [recipe |-> recipe, args |-> <<a>>, error |-> r.error,
   engine_args |-> r.engine_args]

\* One call of a recipe: self = cls.__new__(cls), then the body.  Each call
\* makes a new object and reads nothing of an earlier one, so a behaviour
\* holds one call.
FromTransducer ==
  \E a \in ArgsOf("from_transducer"), engine_ok \in BOOLEAN :
    /\ call = NoCall
    /\ LET r == from_transducer(a, engine_ok)
       IN  /\ recognizer' = r.recognizer
           /\ config' = r.config
           /\ call' = Invoke("from_transducer", a, r)
    /\ UNCHANGED <<streams, last_op>>

FromSenseVoice ==
  \E a \in ArgsOf("from_sense_voice"), engine_ok \in BOOLEAN :
    /\ call = NoCall
    /\ LET r == from_sense_voice(a, engine_ok)
       IN  /\ recognizer' = r.recognizer
           /\ config' = r.config
           /\ call' = Invoke("from_sense_voice", a, r)
    /\ UNCHANGED <<streams, last_op>>

FromParaformer ==
  \E a \in ArgsOf("from_paraformer"), engine_ok \in BOOLEAN :
    /\ call = NoCall
    /\ LET r == from_paraformer(a, engine_ok)
       IN  /\ recognizer' = r.recognizer
           /\ config' = r.config
           /\ call' = Invoke("from_paraformer", a, r)
    /\ UNCHANGED <<streams, last_op>>

FromTelespeechCtc ==
  \E a \in ArgsOf("from_telespeech_ctc"), engine_ok \in BOOLEAN :
    /\ call = NoCall
    /\ LET r == from_telespeech_ctc(a, engine_ok)
       IN  /\ recognizer' = r.recognizer
           /\ config' = r.config
           /\ call' = Invoke("from_telespeech_ctc", a, r)
    /\ UNCHANGED <<streams, last_op>>

FromNemoCtc ==
  \E a \in ArgsOf("from_nemo_ctc"), engine_ok \in BOOLEAN :
    /\ call = NoCall
    /\ LET r == from_nemo_ctc(a, engine_ok)
       IN  /\ recognizer' = r.recognizer
           /\ config' = r.config
           /\ call' = Invoke("from_nemo_ctc", a, r)
    /\ UNCHANGED <<streams, last_op>>

FromWhisper ==
  \E a \in ArgsOf("from_whisper"), engine_ok \in BOOLEAN :
    /\ call = NoCall
    /\ LET r == from_whisper(a, engine_ok)
       IN  /\ recognizer' = r.recognizer
           /\ config' = r.config
           /\ call' = Invoke("from_whisper", a, r)
    /\ UNCHANGED <<streams, last_op>>

FromMoonshine ==
  \E a \in ArgsOf("from_moonshine"), engine_ok \in BOOLEAN :
    /\ call = NoCall
    /\ LET r == from_moonshine(a, engine_ok)
       IN  /\ recognizer' = r.recognizer
           /\ config' = r.config
           /\ call' = Invoke("from_moonshine", a, r)
    /\ UNCHANGED <<streams, last_op>>

FromTdnnCtc ==
  \E a \in ArgsOf("from_tdnn_ctc"), engine_ok \in BOOLEAN :
    /\ call = NoCall
    /\ LET r == from_tdnn_ctc(a, engine_ok)
       IN  /\ recognizer' = r.recognizer
           /\ config' = r.config
           /\ call' = Invoke("from_tdnn_ctc", a, r)
    /\ UNCHANGED <<streams, last_op>>

FromWenetCtc ==
  \E a \in ArgsOf("from_wenet_ctc"), engine_ok \in BOOLEAN :
    /\ call = NoCall
    /\ LET r == from_wenet_ctc(a, engine_ok)
       IN  /\ recognizer' = r.recognizer
           /\ config' = r.config
           /\ call' = Invoke("from_wenet_ctc", a, r)
    /\ UNCHANGED <<streams, last_op>>

\* The recipes, each applied to every argument combination.
RecipeNext ==
  \/ FromTransducer
  \/ FromSenseVoice
  \/ FromParaformer
  \/ FromTelespeechCtc
  \/ FromNemoCtc
  \/ FromWhisper
  \/ FromMoonshine
  \/ FromTdnnCtc
  \/ FromWenetCtc

RecipeSpec == Init /\ [][RecipeNext]_vars

(***************************************************************************)
(* The stream operations, on a recognizer that a recipe returned.          *)
(***************************************************************************)
\* The recipe call that built the recognizer whose streams are followed:
\* from_transducer with modified_beam_search and a hotwords file.
StreamArgs ==
  [ kw |-> {},
    tokens |-> "tokens.txt",
    sample_rate |-> 16000,
    feature_dim |-> 80,
    decoding_method |-> "modified_beam_search",
    hotwords_file |-> "hw.txt",
    lm |-> "",
    model_type |-> "transducer" ]

StreamInit ==
  /\ LET r == from_transducer(StreamArgs, TRUE)
     IN  /\ recognizer = r.recognizer
         /\ config = r.config
         /\ call = Invoke("from_transducer", StreamArgs, r)
  /\ streams = <<>>
  /\ last_op = NoOp

\* The engine's answer to one call of this layer, on the streams strs.
EngineCall(handle, strs, c) ==
  CASE c.op = "create_stream" ->
         Append(strs, IF c.hotwords = <<>>
                      THEN EngineCreateStream(handle)
                      ELSE EngineCreateStreamWithHotwords(handle, c.hotwords[1]))
    [] c.op = "decode_stream" ->
         EngineDecodeStream(handle, strs, c.streams[1])
    [] c.op = "decode_streams" ->
         EngineDecodeStreams(handle, strs, c.streams, Len(c.streams))

\* The calls of one operation, made in order on the engine.  A call the
\* engine fails raises before any result is attached, and no operation
\* catches an exception: the first call that raises ends the operation.
RECURSIVE EngineRun(_, _, _, _)
EngineRun(handle, strs, calls, engine_ok) ==
  IF calls = <<>>
  THEN [streams |-> strs, engine_calls |-> <<>>, raised |-> FALSE]
  ELSE LET c == Head(calls)
           rest == EngineRun(handle, EngineCall(handle, strs, c), Tail(calls), engine_ok)
       IN  IF engine_ok
           THEN [streams |-> rest.streams,
                 engine_calls |-> <<c>> \o rest.engine_calls,
                 raised |-> rest.raised]
           ELSE [streams |-> strs, engine_calls |-> <<c>>, raised |-> TRUE]

\* The stream lists a caller passes to decode_streams: the streams created
\* so far, any number of them in any order, or one stream twice.
Batches ==
  LET ids == 1..Len(streams)
      lists == UNION { [1..n -> ids] : n \in 0..MaxBatch }
  IN  { ss \in lists : \A j, k \in 1..Len(ss) : ss[j] = ss[k] => j = k }
        \cup { <<i, i>> : i \in ids }

Record(op, hotwords, ss, run) ==
  [op |-> op, hotwords |-> hotwords, streams |-> ss,
   before |-> [k \in 1..Len(ss) |-> streams[ss[k]]],
   engine_calls |-> run.engine_calls, raised |-> run.raised]

CreateStream ==
  \E hotwords \in {<<>>} \cup {<<h>> : h \in HotwordStrings} :
    /\ recognizer # <<>>
    /\ Len(streams) < MaxStreams
    /\ LET run == EngineRun(recognizer[1], streams, create_stream(hotwords), TRUE)
       IN  /\ streams' = run.streams
           /\ last_op' = Record("create_stream", hotwords, <<>>, run)
    /\ UNCHANGED <<recognizer, config, call>>

\* s.accept_waveform(sample_rate, samples), called by the application on a
\* stream that holds no audio yet.
AcceptWaveform ==
  \E i \in 1..Len(streams) :
    /\ ~streams[i].audio
    /\ streams' = [streams EXCEPT ![i].audio = TRUE]
    /\ last_op' = [op |-> "accept_waveform", hotwords |-> <<>>, streams |-> <<i>>,
                   before |-> <<streams[i]>>,
                   engine_calls |-> <<>>, raised |-> FALSE]
    /\ UNCHANGED <<recognizer, config, call>>

\* decode_stream that also drops the configuration stored on self.
DecodeStream_drops_config ==
  \E i \in 1..Len(streams), engine_ok \in BOOLEAN :
    /\ recognizer # <<>>
    /\ LET run == EngineRun(recognizer[1], streams, decode_stream(i), engine_ok)
       IN  /\ streams' = run.streams
           /\ last_op' = Record("decode_stream", <<>>, <<i>>, run)
    /\ config' = <<>>
    /\ UNCHANGED <<recognizer, call>>

DecodeStream ==
  \E i \in 1..Len(streams), engine_ok \in BOOLEAN :
    /\ recognizer # <<>>
    /\ LET run == EngineRun(recognizer[1], streams, decode_stream(i), engine_ok)
       IN  /\ streams' = run.streams
           /\ last_op' = Record("decode_stream", <<>>, <<i>>, run)
    /\ UNCHANGED <<recognizer, config, call>>

DecodeStreams ==
  \E ss \in Batches, engine_ok \in BOOLEAN :
    /\ recognizer # <<>>
    /\ LET run == EngineRun(recognizer[1], streams, decode_streams(ss), engine_ok)
       IN  /\ streams' = run.streams
           /\ last_op' = Record("decode_streams", <<>>, ss, run)
    /\ UNCHANGED <<recognizer, config, call>>

Next ==
  \/ CreateStream
  \/ AcceptWaveform
  \/ DecodeStream
  \/ DecodeStreams

Spec == StreamInit /\ [][Next]_vars

(***************************************************************************)
(* Properties of the recipes (checked under RecipeSpec).                   *)
(***************************************************************************)
Called == call.recipe # ""

\* The arguments of the last recipe call.
Args == call.args[1]

\* The configuration the last recipe call handed to the engine constructor.
Handed == call.engine_args[1]

\* An error this layer raises before it reaches the engine constructor.
RaisedHere == call.error.type \in {"ValueError", "TypeError"}

ClosedMethods == {"greedy_search", "modified_beam_search"}

\* C1 (as stated): in every recipe, a non-empty hotwords_file with a
\* decoding_method other than modified_beam_search fails with a
\* configuration error naming the hotwords option and the required method,
\* and a non-empty lm path with such a method fails with one naming the lm
\* option and the required method.
C1_EveryRecipeRejects ==
  Called =>
    /\ (Args.hotwords_file # "" /\ Args.decoding_method # "modified_beam_search"
          => call.error = ValueError("--hotwords-file", Args.decoding_method))
    /\ (Args.lm # "" /\ Args.decoding_method # "modified_beam_search"
          => call.error = ValueError("--lm", Args.decoding_method))

\* C1 (amended): from_transducer, the one recipe with the two parameters,
\* fails with a ValueError naming --hotwords-file and the required method
\* when hotwords_file is non-empty and the method is not
\* modified_beam_search, and with one naming --lm and the required method
\* when hotwords_file is empty, lm is non-empty and the method is not
\* modified_beam_search.  Every other recipe fails with a TypeError when
\* either keyword is passed, and otherwise hands on a configuration whose
\* hotwords file and lm path are empty.
C1_TransducerRejects ==
  Called =>
    IF call.recipe = "from_transducer"
    THEN /\ (Args.hotwords_file # "" /\ Args.decoding_method # "modified_beam_search"
               => /\ call.error = ValueError("--hotwords-file", Args.decoding_method)
                  /\ call.error.required = "--decoding-method=modified_beam_search")
         /\ (Args.hotwords_file = "" /\ Args.lm # ""
               /\ Args.decoding_method # "modified_beam_search"
               => /\ call.error = ValueError("--lm", Args.decoding_method)
                  /\ call.error.required = "--decoding-method=modified_beam_search")
    ELSE /\ (Args.kw \cap {"hotwords_file", "lm"} # {}
               => call.error.type = "TypeError" /\ call.engine_args = <<>>)
         /\ (call.engine_args # <<>>
               => Handed.hotwords_file = "" /\ Handed.lm_config.model = "")

\* A from_transducer call with a hotwords file and an unlisted method, which
\* raised the ValueError.
C1_Witness ==
  /\ call.recipe = "from_transducer"
  /\ Args.hotwords_file = "hw.txt"
  /\ Args.decoding_method = "beam_search"
  /\ call.error.type = "ValueError"

\* The architecture a recipe is for: its payload and its label.
RecipePayload(recipe) ==
  CASE recipe = "from_transducer" -> "transducer"
    [] recipe = "from_sense_voice" -> "sense_voice"
    [] recipe = "from_paraformer" -> "paraformer"
    [] recipe = "from_telespeech_ctc" -> "telespeech_ctc"
    [] recipe = "from_nemo_ctc" -> "nemo_ctc"
    [] recipe = "from_whisper" -> "whisper"
    [] recipe = "from_moonshine" -> "moonshine"
    [] recipe = "from_tdnn_ctc" -> "tdnn"
    [] recipe = "from_wenet_ctc" -> "wenet_ctc"

\* C2 (as stated): the model configuration a recipe builds has exactly one
\* populated payload, the one of the recipe, and its model_type label is
\* the recipe's architecture (for from_transducer, a label of the
\* transducer family).
C2_PayloadAndLabelMatchRecipe ==
  Called /\ call.engine_args # <<>> =>
    /\ Populated(Handed.model_config) = {RecipePayload(call.recipe)}
    /\ IF call.recipe = "from_transducer"
       THEN Handed.model_config.model_type \in ModelTypes
       ELSE Handed.model_config.model_type = RecipePayload(call.recipe)

\* C3 (as stated): the configuration from_telespeech_ctc builds has the
\* feature parameters 40/40, whatever the caller passed.
C3_TelespeechFixedFeatures ==
  call.recipe = "from_telespeech_ctc" /\ call.engine_args # <<>> =>
    Handed.feat_config = FeatureExtractorConfig(40, 40)

\* C3 (amended): the configuration from_telespeech_ctc builds, hands to the
\* engine constructor and stores carries the caller's sample_rate and
\* feature_dim unchanged; this layer overrides neither.
C3_TelespeechCallerFeatures ==
  call.recipe = "from_telespeech_ctc" /\ call.engine_args # <<>> =>
    /\ Handed.feat_config.sampling_rate = Args.sample_rate
    /\ Handed.feat_config.feature_dim = Args.feature_dim
    /\ (config # <<>> => config[1].feat_config = Handed.feat_config)

\* from_telespeech_ctc returned a recognizer whose configuration holds the
\* caller's 8000/80.
C3_Witness ==
  /\ call.recipe = "from_telespeech_ctc"
  /\ call.error = NoError
  /\ Args.sample_rate = 8000
  /\ Args.feature_dim = 80
  /\ config # <<>>
  /\ config[1].feat_config = FeatureExtractorConfig(8000, 80)

\* C4: every configuration from_whisper or from_moonshine builds has the
\* sample rate 16000 and the feature dimension 80.
C4_WhisperMoonshineFeatures ==
  call.recipe \in {"from_whisper", "from_moonshine"} /\ call.engine_args # <<>> =>
    /\ Handed.feat_config = FeatureExtractorConfig(16000, 80)
    /\ (config # <<>> => config[1].feat_config = FeatureExtractorConfig(16000, 80))

\* from_whisper returned a recognizer, called with a method and a tokens
\* path other than the usual ones.
C4_Witness ==
  /\ call.recipe = "from_whisper"
  /\ call.error = NoError
  /\ Args.decoding_method = "modified_beam_search"
  /\ Args.tokens = "missing.txt"
  /\ config # <<>>
  /\ config[1].feat_config.sampling_rate = 16000

\* C5: the configuration from_paraformer builds has the Paraformer payload
\* as its only payload, the label "paraformer", and the caller's
\* sample_rate and feature_dim.
C5_Paraformer ==
  call.recipe = "from_paraformer" /\ call.engine_args # <<>> =>
    /\ Populated(Handed.model_config) = {"paraformer"}
    /\ Handed.model_config.model_type = "paraformer"
    /\ Handed.feat_config = FeatureExtractorConfig(Args.sample_rate, Args.feature_dim)
    /\ (config # <<>> => config[1] = Handed)

\* from_paraformer returned a recognizer for the caller's 8000/40.
C5_Witness ==
  /\ call.recipe = "from_paraformer"
  /\ call.error = NoError
  /\ Args.tokens = "tokens.txt"
  /\ Args.sample_rate = 8000
  /\ Args.feature_dim = 40
  /\ config # <<>>
  /\ config[1].feat_config = FeatureExtractorConfig(8000, 40)

\* C6 (as stated): in every recipe, a decoding_method outside
\* {greedy_search, modified_beam_search} makes the call fail with an error
\* of this layer, and no recognizer is returned.
C6_MethodSetClosed ==
  Called /\ Args.decoding_method \notin ClosedMethods =>
    RaisedHere /\ recognizer = <<>>

\* C6 (amended): this layer does not test decoding_method against the set.
\* A method outside it is rejected here only by from_transducer, and only
\* when hotwords_file or lm is non-empty (it differs from
\* modified_beam_search); in every other call the recipe hands the
\* configuration, with the method string unchanged, to the engine
\* constructor, and the engine constructor decides whether a recognizer
\* is returned.
C6_MethodPassedToEngine ==
  Called /\ Args.decoding_method \notin ClosedMethods /\ Args.kw = {} =>
    IF call.recipe = "from_transducer" /\ (Args.hotwords_file # "" \/ Args.lm # "")
    THEN call.error.type = "ValueError" /\ call.engine_args = <<>>
    ELSE /\ Len(call.engine_args) = 1
         /\ Handed.decoding_method = Args.decoding_method
         /\ call.error \in {NoError, EngineError}
         /\ (call.error = NoError => recognizer # <<>>)

\* from_nemo_ctc returned a recognizer for a method outside the set.
C6_Witness ==
  /\ call.recipe = "from_nemo_ctc"
  /\ Args.decoding_method = "beam_search"
  /\ call.error = NoError
  /\ recognizer # <<>>
  /\ recognizer[1].config.decoding_method = "beam_search"

\* C7 (as stated): in every recipe, a tokens path that is not an existing
\* file makes the call fail before the engine constructor is called.
C7_MissingTokensRejected ==
  Called /\ ~assert_file_exists(Args.tokens) =>
    /\ call.error # NoError
    /\ call.engine_args = <<>>

\* C8: a recipe call that ends in a configuration error of this layer has
\* not called the engine constructor and has set neither self.recognizer
\* nor self.config.
C8_ErrorsPrecedeEngine ==
  Called /\ RaisedHere =>
    /\ call.engine_args = <<>>
    /\ recognizer = <<>>
    /\ config = <<>>

\* from_transducer raised the ValueError for an lm path under greedy_search.
C8_Witness ==
  /\ call.recipe = "from_transducer"
  /\ Args.lm = "lm.onnx"
  /\ Args.hotwords_file = ""
  /\ Args.decoding_method = "greedy_search"
  /\ call.error = ValueError("--lm", "greedy_search")

\* C14: from_transducer hands the configuration to the engine constructor
\* exactly when neither cross-field rule is violated (a non-empty
\* hotwords_file, or a non-empty lm path, with a method other than
\* modified_beam_search); a violated rule ends in a configuration error;
\* every other combination of inputs reaches the constructor, and the call
\* then fails only if the constructor does, and otherwise stores the handle
\* and the configuration.
C14_HandedIffRulesHold ==
  call.recipe = "from_transducer" =>
    LET violated ==
          \/ Args.hotwords_file # "" /\ Args.decoding_method # "modified_beam_search"
          \/ Args.lm # "" /\ Args.decoding_method # "modified_beam_search"
    IN  /\ (call.engine_args # <<>>) <=> ~violated
        /\ violated => call.error.type = "ValueError"
        /\ ~violated =>
             /\ call.error \in {NoError, EngineError}
             /\ call.error = NoError =>
                  /\ recognizer = <<EngineRecognizer(Handed)>>
                  /\ config = <<Handed>>
             /\ call.error = EngineError => recognizer = <<>>
        /\ (/\ Args.decoding_method = "greedy_search"
            /\ Args.lm = ""
            /\ Args.hotwords_file # "")
             => call.error = ValueError("--hotwords-file", "greedy_search")

\* from_transducer with greedy_search, no hotwords file and no lm path, and
\* a token file that does not exist, reached the engine constructor and
\* returned a recognizer.
C14_Witness ==
  /\ call.recipe = "from_transducer"
  /\ Args.decoding_method = "greedy_search"
  /\ Args.hotwords_file = ""
  /\ Args.lm = ""
  /\ Args.tokens = "missing.txt"
  /\ call.error = NoError
  /\ Handed.decoding_method = "greedy_search"
  /\ recognizer # <<>>

(***************************************************************************)
(* Properties of the stream operations (checked under Spec).               *)
(***************************************************************************)
\* The streams as they were before the last operation: the operation's
\* streams as last_op.before holds them, the others as they are.
RECURSIVE Restore(_, _)
Restore(strs, n) ==
  IF n = 0 THEN strs
  ELSE [Restore(strs, n - 1) EXCEPT ![last_op.streams[n]] = last_op.before[n]]

Before == Restore(streams, Len(last_op.streams))

\* decode_stream on each stream of q[1..n] in turn, each call on its own.
RECURSIVE DecodeEach(_, _, _)
DecodeEach(strs, q, n) ==
  IF n = 0 THEN strs
  ELSE EngineRun(recognizer[1], DecodeEach(strs, q, n - 1), decode_stream(q[n]), TRUE).streams

\* The orders in which the streams of the list ss can be taken.
Orders(ss) ==
  { [k \in 1..Len(ss) |-> ss[p[k]]] : p \in Permutations(1..Len(ss)) }

\* C9: a decode_streams call that returns has passed the list to the
\* engine's batch decode in the order supplied, and leaves every stream as
\* independent decode_stream calls on the streams of the list, made in any
\* order from the state before the call, leave it.
C9_BatchAsIndependentDecodes ==
  last_op.op = "decode_streams" /\ ~last_op.raised =>
    /\ last_op.engine_calls =
         <<[op |-> "decode_streams", hotwords |-> <<>>, streams |-> last_op.streams]>>
    /\ \A q \in Orders(last_op.streams) :
         DecodeEach(Before, q, Len(q)) = streams

\* decode_streams([2, 1]) returned, on two streams that held audio and no
\* result, and each holds the result of its own audio and hotwords.
C9_Witness ==
  /\ last_op.op = "decode_streams"
  /\ ~last_op.raised
  /\ last_op.streams = <<2, 1>>
  /\ Status(last_op.before[1]) = "Ready"
  /\ Status(last_op.before[2]) = "Ready"
  /\ streams[1].hotwords.origin # streams[2].hotwords.origin
  /\ streams[1].result # streams[2].result
  /\ Status(streams[1]) = "Decoded"
  /\ Status(streams[2]) = "Decoded"

\* C10 (as stated): a decode call on a stream that is Decoded already, or
\* on a list that holds a stream twice, is rejected: it raises, and the
\* stream keeps the result it had.
C10_DecodedStreamNotDecodedAgain ==
  last_op.op \in {"decode_stream", "decode_streams"} =>
    \A k \in 1..Len(last_op.streams) :
      (\/ Status(last_op.before[k]) = "Decoded"
       \/ \E j \in 1..Len(last_op.streams) :
            j # k /\ last_op.streams[j] = last_op.streams[k])
      => /\ last_op.raised
         /\ streams[last_op.streams[k]] = last_op.before[k]

\* C11 (as stated): decode_stream on a stream that is still Created (no
\* audio appended) does not succeed: the call raises, and no result is
\* attached to the stream.
C11_CreatedStreamNotDecoded ==
  last_op.op = "decode_stream" /\ Status(last_op.before[1]) = "Created" =>
    /\ last_op.raised
    /\ Status(streams[last_op.streams[1]]) = "Created"

\* C12: a create_stream call adds one stream and leaves every other stream
\* as it was; the new stream's hotwords are exactly the string supplied, or
\* the recognizer-level hotwords file when none was supplied; and no later
\* operation, in any order, changes the hotwords of a stream.
C12_HotwordsOverrideOneStream ==
  [][ /\ \A j \in 1..Len(streams) : streams'[j].hotwords = streams[j].hotwords
      /\ last_op'.op = "create_stream" =>
           /\ Len(streams') = Len(streams) + 1
           /\ SubSeq(streams', 1, Len(streams)) = streams
           /\ streams'[Len(streams')].hotwords =
                IF last_op'.hotwords = <<>>
                THEN [origin |-> "hotwords_file",
                      text |-> config[1].hotwords_file]
                ELSE [origin |-> "create_stream",
                      text |-> last_op'.hotwords[1]] ]_vars

\* create_stream("HELLO WORLD") and then create_stream() were called: the
\* first stream holds the supplied string, the second the recognizer-level
\* hotwords file.
C12_Witness ==
  /\ last_op.op = "create_stream"
  /\ last_op.hotwords = <<>>
  /\ Len(streams) = 2
  /\ streams[1].hotwords = [origin |-> "create_stream", text |-> "HELLO WORLD"]
  /\ streams[2].hotwords = [origin |-> "hotwords_file", text |-> "hw.txt"]

\* C13: after any sequence of create_stream, decode_stream and
\* decode_streams calls (and of audio appended in between), self.config and
\* self.recognizer are the values the recipe stored at construction: the
\* configuration it handed to the engine constructor and the handle the
\* constructor returned for it.
C13_ConfigNeverMutated ==
  LET r == from_transducer(StreamArgs, TRUE)
  IN  /\ config = r.config
      /\ recognizer = r.recognizer
      /\ config = call.engine_args
      /\ recognizer = <<EngineRecognizer(call.engine_args[1])>>

\* Two streams were created, the first was decoded alone, and then
\* decode_streams([1, 2]) returned: the stored configuration is the one of
\* the construction.
C13_Witness ==
  /\ last_op.op = "decode_streams"
  /\ ~last_op.raised
  /\ last_op.streams = <<1, 2>>
  /\ Status(last_op.before[1]) = "Decoded"
  /\ config[1].decoding_method = "modified_beam_search"
  /\ config[1].hotwords_file = "hw.txt"
  /\ recognizer[1].config = config[1]

\* C15: a decode_stream call makes exactly one engine call, the
\* single-stream decode of its stream, and a decode_streams call exactly
\* one, the batch decode of the whole list in the order supplied, whether
\* the engine call returns or fails; a call the engine failed has raised to
\* the caller, with no further engine call and no result attached.
C15_OneEngineCallNoRetry ==
  last_op.op \in {"decode_stream", "decode_streams"} =>
    /\ last_op.engine_calls =
         <<[op |-> last_op.op, hotwords |-> <<>>, streams |-> last_op.streams]>>
    /\ last_op.raised =>
         \A k \in 1..Len(last_op.streams) :
           streams[last_op.streams[k]] = last_op.before[k]

\* decode_streams([1, 2]) on two streams that held audio: the engine call
\* failed and the call raised.
C15_Witness ==
  /\ last_op.op = "decode_streams"
  /\ last_op.raised
  /\ last_op.streams = <<1, 2>>
  /\ Len(last_op.engine_calls) = 1
  /\ Status(streams[1]) = "Ready"
  /\ Status(streams[2]) = "Ready"

====
